---- MODULE Spec2Model ----
(***************************************************************************)
(* Model of src/distributions/float.rs: the Uniform, Open01 and Closed01   *)
(* floating-point distributions for f32 and f64.                           *)
(*                                                                         *)
(* Machine words (u32, u64) and the bit patterns of floats are sequences   *)
(* of bits, least significant bit first.  Unsigned magnitudes are the same *)
(* sequences without high zero bits.  The IEEE-754 operations the code     *)
(* uses (-, +, *, /, integer-to-float conversion) are computed on the      *)
(* decoded sign/significand/exponent with round-to-nearest-even.           *)
(***************************************************************************)
EXTENDS Integers, Sequences, FiniteSets, TLC

----------------------------------------------------------------------------
(* Unsigned magnitudes as bit sequences, least significant bit first.      *)

Max(a, b) == IF a >= b THEN a ELSE b

Min(a, b) == IF a <= b THEN a ELSE b

Bit(a, i) == IF i >= 1 /\ i <= Len(a) THEN a[i] ELSE 0

Zeros(n) == [i \in 1..n |-> 0]

Ones(n) == [i \in 1..n |-> 1]

\* number of significant bits (0 for zero)
BitLen(a) ==
    IF \A i \in 1..Len(a) : a[i] = 0 THEN 0
    ELSE CHOOSE i \in 1..Len(a) : a[i] = 1 /\ \A k \in (i+1)..Len(a) : a[k] = 0

Trim(a) == SubSeq(a, 1, BitLen(a))

\* a zero-extended or truncated to exactly n bits
Resize(a, n) == [i \in 1..n |-> Bit(a, i)]

IsZero(a) == BitLen(a) = 0

NatEq(a, b) == \A i \in 1..Max(Len(a), Len(b)) : Bit(a, i) = Bit(b, i)

NatLt(a, b) ==
    \E i \in 1..Max(Len(a), Len(b)) :
        /\ Bit(a, i) < Bit(b, i)
        /\ \A k \in (i+1)..Max(Len(a), Len(b)) : Bit(a, k) = Bit(b, k)

NatLe(a, b) == ~NatLt(b, a)

\* one bit position with digit sum t: sum bit and carry out for a carry in
\* of 0 (s0, c0) and of 1 (s1, c1)
AddBit(t) ==
    [s0 |-> <<t % 2>>, c0 |-> t \div 2, s1 |-> <<(t + 1) % 2>>, c1 |-> (t + 1) \div 2]

\* a lower and an upper block of positions joined into one
AddJoin(lw, up) ==
    [s0 |-> lw.s0 \o (IF lw.c0 = 1 THEN up.s1 ELSE up.s0),
     c0 |-> IF lw.c0 = 1 THEN up.c1 ELSE up.c0,
     s1 |-> lw.s1 \o (IF lw.c1 = 1 THEN up.s1 ELSE up.s0),
     c1 |-> IF lw.c1 = 1 THEN up.c1 ELSE up.c0]

RECURSIVE AddSel(_, _, _, _)
\* bits lo..hi of a + b and the carry out of bit hi, for both carries into lo
AddSel(a, b, lo, hi) ==
    IF lo = hi THEN AddBit(Bit(a, lo) + Bit(b, lo))
    ELSE AddJoin(AddSel(a, b, lo, (lo + hi) \div 2),
                 AddSel(a, b, (lo + hi) \div 2 + 1, hi))

WithCarry(sum) == Trim(sum.s0 \o <<sum.c0>>)

NatAdd(a, b) ==
    IF Len(a) = 0 /\ Len(b) = 0 THEN <<>>
    ELSE WithCarry(AddSel(a, b, 1, Max(Len(a), Len(b))))

Complement(a, n) == [i \in 1..n |-> 1 - Bit(a, i)]

\* a - b for a >= b, as a + ~b + 1 on the bits of a
NatSub(a, b) ==
    IF Len(a) = 0 /\ Len(b) = 0 THEN <<>>
    ELSE Trim(AddSel(a, Complement(b, Max(Len(a), Len(b))), 1, Max(Len(a), Len(b))).s1)

\* a * 2^n
Shl(a, n) == IF IsZero(a) THEN <<>> ELSE Zeros(n) \o Trim(a)

\* a \div 2^n
Shr(a, n) == IF n >= Len(a) THEN <<>> ELSE Trim(SubSeq(a, n + 1, Len(a)))

\* a % 2^n # 0
LowNonZero(a, n) == \E i \in 1..Min(n, Len(a)) : a[i] = 1

RECURSIVE SumShifted(_, _, _, _)
\* sum of a * 2^(i-1) over the set bits i of b in lo..hi
SumShifted(a, b, lo, hi) ==
    IF lo > hi THEN <<>>
    ELSE IF lo = hi THEN (IF Bit(b, lo) = 1 THEN Shl(a, lo - 1) ELSE <<>>)
    ELSE LET mid == (lo + hi) \div 2
         IN  NatAdd(SumShifted(a, b, lo, mid), SumShifted(a, b, mid + 1, hi))

NatMul(a, b) == SumShifted(a, b, 1, Len(b))

\* the remainder r, with the next bit of the dividend brought down, against
\* the divisor b: the next quotient bit goes in front of q
DivBit(q, r, b) ==
    IF NatLe(b, r) THEN [q |-> <<1>> \o q, r |-> NatSub(r, b)]
    ELSE [q |-> <<0>> \o q, r |-> Trim(r)]

\* one step of binary long division: bring down bit i of a
DivStep(st, a, b, i) == DivBit(st.q, <<Bit(a, i)>> \o st.r, b)

RECURSIVE DivRange(_, _, _, _, _)
RECURSIVE DivLower(_, _, _, _, _)
\* long division over bits hi, hi-1, ..., lo of a
DivRange(st, a, b, hi, lo) ==
    IF hi < lo THEN st
    ELSE IF hi = lo THEN DivStep(st, a, b, hi)
    ELSE DivLower(DivRange(st, a, b, hi, (lo + hi) \div 2 + 1), a, b, (lo + hi) \div 2, lo)

\* the steps over the lower bits, once those over the upper bits are done
DivLower(upper, a, b, hi, lo) ==
    IF Len(upper.q) >= 0 THEN DivRange(upper, a, b, hi, lo) ELSE upper

TrimQuotient(d) == [q |-> Trim(d.q), r |-> d.r]

\* [q, r] with a = q * b + r, r < b, for b # 0
NatDivMod(a, b) == TrimQuotient(DivRange([q |-> <<>>, r |-> <<>>], a, b, Len(a), 1))

RECURSIVE NatOfInt(_)
NatOfInt(n) == IF n = 0 THEN <<>> ELSE <<n % 2>> \o NatOfInt(n \div 2)

RECURSIVE IntOfNat(_)
\* only for magnitudes below 2^31
IntOfNat(a) == IF Len(a) = 0 THEN 0 ELSE a[1] + 2 * IntOfNat(Tail(a))

----------------------------------------------------------------------------
(* IEEE-754 binary formats.  A float is its bit pattern: fraction bits,    *)
(* then exponent bits, then the sign bit (least significant first).        *)

F32 == [ebits |-> 8, mbits |-> 23]

F64 == [ebits |-> 11, mbits |-> 52]

Width(fmt) == 1 + fmt.ebits + fmt.mbits

Bias(fmt) == 2^(fmt.ebits - 1) - 1

ExpAllOnes(fmt) == 2^fmt.ebits - 1

SignBit(fmt, f) == f[Width(fmt)]

ExpField(fmt, f) == IntOfNat(SubSeq(f, fmt.mbits + 1, fmt.mbits + fmt.ebits))

FracField(fmt, f) == SubSeq(f, 1, fmt.mbits)

Encode(fmt, sgn, ex, frac) ==
    Resize(frac, fmt.mbits) \o Resize(NatOfInt(ex), fmt.ebits) \o <<sgn>>

Infinity(fmt, sgn) == Encode(fmt, sgn, ExpAllOnes(fmt), <<>>)

QuietNaN(fmt) == Encode(fmt, 0, ExpAllOnes(fmt), Zeros(fmt.mbits - 1) \o <<1>>)

FZero(fmt, sgn) == Encode(fmt, sgn, 0, <<>>)

\* the value of the fields sgn, ex, fr of a float
DecodeFields(fmt, sgn, ex, fr) ==
    IF ex = ExpAllOnes(fmt)
    THEN [cls |-> IF IsZero(fr) THEN "inf" ELSE "nan", s |-> sgn, m |-> <<>>, e |-> 0]
    ELSE IF ex = 0
    THEN [cls |-> "fin", s |-> sgn, m |-> Trim(fr), e |-> 1 - Bias(fmt) - fmt.mbits]
    ELSE [cls |-> "fin", s |-> sgn, m |-> fr \o <<1>>, e |-> ex - Bias(fmt) - fmt.mbits]

\* the value a bit pattern denotes: NaN, an infinity, or (-1)^s * m * 2^e
Decode(fmt, f) ==
    DecodeFields(fmt, SignBit(fmt, f), ExpField(fmt, f), FracField(fmt, f))

\* the float with exponent field fld and significand sig
PackField(fmt, sgn, fld, sig) ==
    IF fld >= ExpAllOnes(fmt) THEN Infinity(fmt, sgn) ELSE Encode(fmt, sgn, fld, sig)

\* sig * 2^lsb with sig below 2^(mbits+1): subnormal when below 2^mbits
PackNorm(fmt, sgn, lsb, sig) ==
    PackField(fmt, sgn,
              IF BitLen(sig) <= fmt.mbits THEN 0 ELSE lsb + fmt.mbits + Bias(fmt), sig)

\* sig * 2^lsb, where rounding up may have carried sig to 2^(mbits+1)
Pack(fmt, sgn, lsb, sig) ==
    IF BitLen(sig) = fmt.mbits + 2 THEN PackNorm(fmt, sgn, lsb + 1, Shr(sig, 1))
    ELSE PackNorm(fmt, sgn, lsb, sig)

\* m \div 2^d, or m * 2^-d for d <= 0
ShiftTo(m, d) == IF d <= 0 THEN Shl(m, 0 - d) ELSE Shr(m, d)

\* round to nearest, ties to even: whether dropping the low d bits of m (and
\* a nonzero tail below them when sticky) rounds the kept bits up
RoundsUp(m, d, sticky) ==
    /\ d > 0
    /\ Bit(m, d) = 1
    /\ (sticky \/ LowNonZero(m, d - 1) \/ Bit(m, d + 1) = 1)

\* m * 2^ex rounded to a multiple of 2^lsb
RoundAt(fmt, sgn, m, ex, sticky, lsb) ==
    Pack(fmt, sgn, lsb,
         IF RoundsUp(m, lsb - ex, sticky) THEN NatAdd(ShiftTo(m, lsb - ex), <<1>>)
         ELSE ShiftTo(m, lsb - ex))

\* round (-1)^sgn * (m + tail) * 2^ex to the nearest float, ties to even;
\* sticky says that a nonzero tail below m's last bit was dropped
RoundPack(fmt, sgn, m, ex, sticky) ==
    IF IsZero(m) THEN FZero(fmt, sgn)
    ELSE RoundAt(fmt, sgn, m, ex, sticky,
                 Max(ex + BitLen(m) - 1, 1 - Bias(fmt)) - fmt.mbits)

FNeg(fmt, f) == [f EXCEPT ![Width(fmt)] = 1 - f[Width(fmt)]]

\* sign and magnitude of (-1)^sa * ma + (-1)^sb * mb
SignedSum(sa, sb, ma, mb) ==
    IF sa = sb THEN [s |-> sa, m |-> NatAdd(ma, mb)]
    ELSE IF NatEq(ma, mb) THEN [s |-> 0, m |-> <<>>]
    ELSE IF NatLt(mb, ma) THEN [s |-> sa, m |-> NatSub(ma, mb)]
    ELSE [s |-> sb, m |-> NatSub(mb, ma)]

PackSum(fmt, sum, ex) == RoundPack(fmt, sum.s, sum.m, ex, FALSE)

AddDecoded(fmt, a, b, da, db) ==
    IF da.cls = "nan" \/ db.cls = "nan" THEN QuietNaN(fmt)
    ELSE IF da.cls = "inf" /\ db.cls = "inf"
    THEN (IF da.s = db.s THEN a ELSE QuietNaN(fmt))
    ELSE IF da.cls = "inf" THEN a
    ELSE IF db.cls = "inf" THEN b
    ELSE PackSum(fmt,
                 SignedSum(da.s, db.s,
                           Shl(da.m, da.e - Min(da.e, db.e)),
                           Shl(db.m, db.e - Min(da.e, db.e))),
                 Min(da.e, db.e))

\* a + b
FAdd(fmt, a, b) == AddDecoded(fmt, a, b, Decode(fmt, a), Decode(fmt, b))

\* a - b
FSub(fmt, a, b) == FAdd(fmt, a, FNeg(fmt, b))

MulDecoded(fmt, da, db) ==
    IF da.cls = "nan" \/ db.cls = "nan" THEN QuietNaN(fmt)
    ELSE IF da.cls = "inf" \/ db.cls = "inf"
    THEN (IF (da.cls = "fin" /\ IsZero(da.m)) \/ (db.cls = "fin" /\ IsZero(db.m))
          THEN QuietNaN(fmt) ELSE Infinity(fmt, (da.s + db.s) % 2))
    ELSE RoundPack(fmt, (da.s + db.s) % 2, NatMul(da.m, db.m), da.e + db.e, FALSE)

\* a * b
FMul(fmt, a, b) == MulDecoded(fmt, Decode(fmt, a), Decode(fmt, b))

PackQuotient(fmt, sgn, qr, ex) == RoundPack(fmt, sgn, qr.q, ex, ~IsZero(qr.r))

\* ma * 2^ea / (mb * 2^eb) for ma, mb # 0: the quotient of the significands
\* is taken with sh extra bits, more than the format keeps
DivFinite(fmt, sgn, ma, ea, mb, eb, sh) ==
    PackQuotient(fmt, sgn, NatDivMod(Shl(ma, sh), mb), ea - eb - sh)

DivDecoded(fmt, da, db) ==
    IF da.cls = "nan" \/ db.cls = "nan" THEN QuietNaN(fmt)
    ELSE IF da.cls = "inf"
    THEN (IF db.cls = "inf" THEN QuietNaN(fmt) ELSE Infinity(fmt, (da.s + db.s) % 2))
    ELSE IF db.cls = "inf" THEN FZero(fmt, (da.s + db.s) % 2)
    ELSE IF IsZero(db.m)
    THEN (IF IsZero(da.m) THEN QuietNaN(fmt) ELSE Infinity(fmt, (da.s + db.s) % 2))
    ELSE IF IsZero(da.m) THEN FZero(fmt, (da.s + db.s) % 2)
    ELSE DivFinite(fmt, (da.s + db.s) % 2, da.m, da.e, db.m, db.e,
                   fmt.mbits + 3 + BitLen(db.m))

\* a / b
FDiv(fmt, a, b) == DivDecoded(fmt, Decode(fmt, a), Decode(fmt, b))

\* an unsigned integer converted to the float type (`as $ty`)
FFromUInt(fmt, u) == RoundPack(fmt, 0, Trim(u), 0, FALSE)

\* the float literals 1.0 and 0.5
FOne(fmt) == RoundPack(fmt, 0, <<1>>, 0, FALSE)

FHalf(fmt) == RoundPack(fmt, 0, <<1>>, 0 - 1, FALSE)

IsFinite(fmt, f) == Decode(fmt, f).cls = "fin"

----------------------------------------------------------------------------
(* Exact comparison of finite values (-1)^s * m * 2^e.                     *)

Dy(sgn, m, ex) == [s |-> sgn, m |-> m, e |-> ex]

DyOf(fmt, f) == LET d == Decode(fmt, f) IN Dy(d.s, d.m, d.e)

\* (-1)^sp * mp < (-1)^sq * mq
SignedLt(sp, sq, mp, mq) ==
    IF IsZero(mp) /\ IsZero(mq) THEN FALSE
    ELSE IF sp = 0 /\ sq = 0 THEN NatLt(mp, mq)
    ELSE IF sp = 1 /\ sq = 1 THEN NatLt(mq, mp)
    ELSE sp = 1

DyLt(p, q) ==
    SignedLt(p.s, q.s, Shl(p.m, p.e - Min(p.e, q.e)), Shl(q.m, q.e - Min(p.e, q.e)))

DyLe(p, q) == ~DyLt(q, p)

DyEq(p, q) == ~DyLt(p, q) /\ ~DyLt(q, p)

\* k * p for a small integer k > 0
DyScale(k, p) == Dy(p.s, NatMul(p.m, NatOfInt(k)), p.e)

----------------------------------------------------------------------------
(* Machine words and the constants of float.rs.                            *)

\* the word of wd bits written as the hexadecimal digits ds
HexWord(ds, wd) ==
    Resize([i \in 1..(4 * Len(ds)) |->
              (ds[Len(ds) - ((i - 1) \div 4)] \div 2^((i - 1) % 4)) % 2], wd)

BitAnd(a, b) == [i \in 1..Len(a) |-> a[i] * b[i]]

BitOr(a, b) == [i \in 1..Len(a) |-> Max(a[i], b[i])]

\* const UPPER_MASK: u32 = 0x3F800000
UPPER_MASK32 == HexWord(<<3, 15, 8, 0, 0, 0, 0, 0>>, 32)

\* const LOWER_MASK: u32 = 0x7FFFFF
LOWER_MASK32 == HexWord(<<7, 15, 15, 15, 15, 15>>, 32)

\* mutant: an exponent pattern that reaches into the mantissa
UPPER_MASK64_Overlap == HexWord(<<3, 15, 15, 8, 0, 0, 0, 0, 0, 0, 0, 0, 0, 0, 0, 0>>, 64)

\* const UPPER_MASK: u64 = 0x3FF0000000000000
UPPER_MASK64 == HexWord(<<3, 15, 15, 0, 0, 0, 0, 0, 0, 0, 0, 0, 0, 0, 0, 0>>, 64)

\* mutant: a mask one hexadecimal digit short
LOWER_MASK64_Short == HexWord(<<15, 15, 15, 15, 15, 15, 15, 15, 15, 15, 15, 15>>, 64)

\* const LOWER_MASK: u64 = 0xFFFFFFFFFFFFF
LOWER_MASK64 == HexWord(<<15, 15, 15, 15, 15, 15, 15, 15, 15, 15, 15, 15, 15>>, 64)

\* mem::transmute between an unsigned word and the float of the same
\* width: the bits are kept, Decode gives them their float meaning
Transmute(wrd) == wrd

\* let tmp = UPPER_MASK | (rng.next_u32() & LOWER_MASK)
UniformTmpF32(raw) == BitOr(UPPER_MASK32, BitAnd(raw, LOWER_MASK32))

\* mutant: the operands of the subtraction swapped
UniformSampleF32_Reversed(raw) ==
    FSub(F32, FOne(F32), Transmute(UniformTmpF32(raw)))

\* Distribution<f32> for Uniform, on the word next_u32 returned
UniformSampleF32(raw) == FSub(F32, Transmute(UniformTmpF32(raw)), FOne(F32))

\* let tmp = UPPER_MASK | (rng.next_u64() & LOWER_MASK)
UniformTmpF64(raw) == BitOr(UPPER_MASK64, BitAnd(raw, LOWER_MASK64))

\* mutant: the value in [1, 2) returned without the offset
UniformSampleF64_NoOffset(raw) == Transmute(UniformTmpF64(raw))

\* Distribution<f64> for Uniform, on the word next_u64 returned
UniformSampleF64(raw) == FSub(F64, Transmute(UniformTmpF64(raw)), FOne(F64))

\* float_impls! { f64_rand_impls, f64, 52 } and { f32_rand_impls, f32, 23 }
Fmt(ty) == IF ty = "f32" THEN F32 ELSE F64

\* mutant: one bit too many in the shift
SCALE_Doubled(ty) == FFromUInt(Fmt(ty), Resize(Shl(<<1>>, Fmt(ty).mbits + 1), 64))

\* const SCALE: $ty = (1u64 << $mantissa_bits) as $ty
SCALE(ty) == FFromUInt(Fmt(ty), Resize(Shl(<<1>>, Fmt(ty).mbits), 64))

\* Uniform.sample for the type ty
UniformSample(ty, raw) ==
    IF ty = "f32" THEN UniformSampleF32(raw) ELSE UniformSampleF64(raw)

\* rng.gen::<$ty>(): the Uniform sample of the type, on the word the
\* source returned
Gen(ty, raw) == UniformSample(ty, raw)

\* mutant: a whole epsilon added instead of half of it
Open01Sample_FullEps(ty, raw) ==
    FAdd(Fmt(ty), Gen(ty, raw), FDiv(Fmt(ty), FOne(Fmt(ty)), SCALE(ty)))

\* Distribution<$ty> for Open01:  x + 0.5 / SCALE
Open01Sample(ty, raw) ==
    FAdd(Fmt(ty), Gen(ty, raw), FDiv(Fmt(ty), FHalf(Fmt(ty)), SCALE(ty)))

\* mutant: the divisor left at SCALE
Closed01Sample_NoRescale(ty, raw) ==
    FDiv(Fmt(ty), FMul(Fmt(ty), Gen(ty, raw), SCALE(ty)), SCALE(ty))

\* mutant: the divisor SCALE + 1.0
Closed01Sample_ScalePlusOne(ty, raw) ==
    FDiv(Fmt(ty), FMul(Fmt(ty), Gen(ty, raw), SCALE(ty)),
         FAdd(Fmt(ty), SCALE(ty), FOne(Fmt(ty))))

\* Distribution<$ty> for Closed01:  x * SCALE / (SCALE - 1.0)
Closed01Sample(ty, raw) ==
    FDiv(Fmt(ty), FMul(Fmt(ty), Gen(ty, raw), SCALE(ty)),
         FSub(Fmt(ty), SCALE(ty), FOne(Fmt(ty))))

UniformTmp(ty, raw) == IF ty = "f32" THEN UniformTmpF32(raw) ELSE UniformTmpF64(raw)

LowerMask(ty) == IF ty = "f32" THEN LOWER_MASK32 ELSE LOWER_MASK64

UpperMask(ty) == IF ty = "f32" THEN UPPER_MASK32 ELSE UPPER_MASK64

----------------------------------------------------------------------------
(* The words the bit source is made to return.                             *)

\* how far below each edge value the returned words go
Span == 1

\* hexadecimal digits repeated over the whole word
Patterns == {3, 5, 10, 12}

RepWord(dg, wd) == [i \in 1..wd |-> (dg \div 2^((i - 1) % 4)) % 2]

\* words of wd bits for a type with mb mantissa bits: the smallest words, the
\* largest mantissas without and with the bits above them set, the bit just
\* above the mantissa, the top mantissa bit, and the patterns
WordsOf(wd, mb) ==
    {Resize(NatOfInt(j), wd) : j \in 0..Span}
    \cup {Resize(NatSub(Ones(mb), NatOfInt(j)), wd) : j \in 0..Span}
    \cup {Resize(NatSub(Ones(wd), NatOfInt(j)), wd) : j \in 0..Span}
    \cup {Resize(Shl(<<1>>, mb), wd), Resize(Shl(<<1>>, mb - 1), wd)}
    \cup {RepWord(dg, wd) : dg \in Patterns}

RawWords(ty) == WordsOf(Width(Fmt(ty)), Fmt(ty).mbits)

Raw32 == RawWords("f32")

Raw64 == RawWords("f64")

Types == {"f32", "f64"}

Dists == {"Uniform", "Open01", "Closed01"}

Sample(dist, ty, raw) ==
    IF dist = "Uniform" THEN UniformSample(ty, raw)
    ELSE IF dist = "Open01" THEN Open01Sample(ty, raw)
    ELSE Closed01Sample(ty, raw)

\* the samplers tabulated over the words the source returns
SampleOf ==
    [dist \in Dists |-> [ty \in Types |-> [raw \in RawWords(ty) |-> Sample(dist, ty, raw)]]]

TmpOf == [ty \in Types |-> [raw \in RawWords(ty) |-> UniformTmp(ty, raw)]]

----------------------------------------------------------------------------
(* The state machine: a caller draws samples from one bit source.          *)

\* number of sample operations explored
MaxOps == 2

VARIABLES
    calls32,    \* times next_u32 was called on the source
    calls64,    \* times next_u64 was called on the source
    nsamples,   \* sample operations completed
    last,       \* the latest sample: distribution, type, word drawn, result
    before      \* the sample before it

vars == <<calls32, calls64, nsamples, last, before>>

NoSample == [dist |-> "none", ty |-> "none", raw |-> <<>>, tmp |-> <<>>, out |-> <<>>]

Init ==
    /\ calls32 = 0
    /\ calls64 = 0
    /\ nsamples = 0
    /\ last = NoSample
    /\ before = NoSample

\* mutant: a sampler that reuses the word of the previous call of its type
Drawn_Stale(dist, ty, wrd) ==
    [dist |-> dist, ty |-> ty, raw |-> wrd,
     tmp |-> TmpOf[ty][wrd],
     out |-> SampleOf[dist][ty][IF last.ty = ty THEN last.raw ELSE wrd]]

\* the record of one sample call that drew the word wrd
Drawn(dist, ty, wrd) ==
    [dist |-> dist, ty |-> ty, raw |-> wrd,
     tmp |-> TmpOf[ty][wrd], out |-> SampleOf[dist][ty][wrd]]

\* Uniform.sample::<f32>: one next_u32
SampleUniformF32 ==
    /\ nsamples < MaxOps
    /\ \E wrd \in Raw32 :
        /\ calls32' = calls32 + 1
        /\ last' = Drawn("Uniform", "f32", wrd)
    /\ before' = last
    /\ nsamples' = nsamples + 1
    /\ UNCHANGED calls64

\* Uniform.sample::<f64>: one next_u64
SampleUniformF64 ==
    /\ nsamples < MaxOps
    /\ \E wrd \in Raw64 :
        /\ calls64' = calls64 + 1
        /\ last' = Drawn("Uniform", "f64", wrd)
    /\ before' = last
    /\ nsamples' = nsamples + 1
    /\ UNCHANGED calls32

\* mutant: the f32 sampler fed from next_u64
SampleOpen01F32_Wide ==
    /\ nsamples < MaxOps
    /\ \E wrd \in Raw32 :
        /\ calls64' = calls64 + 1
        /\ last' = Drawn("Open01", "f32", wrd)
    /\ before' = last
    /\ nsamples' = nsamples + 1
    /\ UNCHANGED calls32

\* Open01.sample::<f32>: rng.gen::<f32>(), so one next_u32
SampleOpen01F32 ==
    /\ nsamples < MaxOps
    /\ \E wrd \in Raw32 :
        /\ calls32' = calls32 + 1
        /\ last' = Drawn("Open01", "f32", wrd)
    /\ before' = last
    /\ nsamples' = nsamples + 1
    /\ UNCHANGED calls64

\* Open01.sample::<f64>: rng.gen::<f64>(), so one next_u64
SampleOpen01F64 ==
    /\ nsamples < MaxOps
    /\ \E wrd \in Raw64 :
        /\ calls64' = calls64 + 1
        /\ last' = Drawn("Open01", "f64", wrd)
    /\ before' = last
    /\ nsamples' = nsamples + 1
    /\ UNCHANGED calls32

\* Closed01.sample::<f32>: rng.gen::<f32>(), so one next_u32
SampleClosed01F32 ==
    /\ nsamples < MaxOps
    /\ \E wrd \in Raw32 :
        /\ calls32' = calls32 + 1
        /\ last' = Drawn("Closed01", "f32", wrd)
    /\ before' = last
    /\ nsamples' = nsamples + 1
    /\ UNCHANGED calls64

\* Closed01.sample::<f64>: rng.gen::<f64>(), so one next_u64
SampleClosed01F64 ==
    /\ nsamples < MaxOps
    /\ \E wrd \in Raw64 :
        /\ calls64' = calls64 + 1
        /\ last' = Drawn("Closed01", "f64", wrd)
    /\ before' = last
    /\ nsamples' = nsamples + 1
    /\ UNCHANGED calls32

Next ==
    \/ SampleUniformF32
    \/ SampleUniformF64
    \/ SampleOpen01F32
    \/ SampleOpen01F64
    \/ SampleClosed01F32
    \/ SampleClosed01F64

Spec == Init /\ [][Next]_vars

----------------------------------------------------------------------------
(* Vocabulary of the properties.                                           *)

DyZero == Dy(0, <<>>, 0)

DyOne == Dy(0, <<1>>, 0)

MantissaBits(ty) == IF ty = "f32" THEN 23 ELSE 52

\* 2^-mantissa_bits: f32::EPSILON, f64::EPSILON
Epsilon(ty) == Dy(0, <<1>>, 0 - MantissaBits(ty))

\* the integer r & mantissa_mask of a sample: the low mantissa bits of r
Mantissa(smp) == Trim(Resize(smp.raw, MantissaBits(smp.ty)))

MantissaAllOnes(smp) == NatEq(Mantissa(smp), Ones(MantissaBits(smp.ty)))

IsSample(smp) == smp.dist \in Dists

Finite(smp) == IsFinite(Fmt(smp.ty), smp.out)

Val(smp) == DyOf(Fmt(smp.ty), smp.out)

\* p + q for p, q >= 0
DyPlus(p, q) ==
    Dy(0, NatAdd(Shl(p.m, p.e - Min(p.e, q.e)), Shl(q.m, q.e - Min(p.e, q.e))),
       Min(p.e, q.e))

\* the Uniform sample of the same word
UniformVal(smp) == DyOf(Fmt(smp.ty), SampleOf["Uniform"][smp.ty][smp.raw])

WordOfInt(k, ty) == Resize(NatOfInt(k), Width(Fmt(ty)))

----------------------------------------------------------------------------
(* C1: every Uniform sample x, f32 or f64, whatever word the source        *)
(* returned, is finite and satisfies 0.0 <= x < 1.0.                       *)
C1_UniformHalfOpen ==
    last.dist = "Uniform" =>
        /\ Finite(last)
        /\ DyLe(DyZero, Val(last))
        /\ DyLt(Val(last), DyOne)

C1_Witness ==
    /\ last.dist = "Uniform"
    /\ last.ty = "f64"
    /\ last.raw = Ones(64)
    /\ DyLt(DyZero, Val(last))
    /\ before.dist = "Uniform"
    /\ before.ty = "f32"
    /\ before.raw = Zeros(32)

(* C2: every Open01 sample x, f32 or f64, satisfies 0.0 < x < 1.0          *)
(* strictly, also when the mantissa bits drawn are all zero or all one.    *)
C2_Open01Strict ==
    last.dist = "Open01" =>
        /\ Finite(last)
        /\ DyLt(DyZero, Val(last))
        /\ DyLt(Val(last), DyOne)

C2_Witness ==
    /\ last.dist = "Open01"
    /\ MantissaAllOnes(last)
    /\ before.dist = "Open01"
    /\ IsZero(Mantissa(before))
    /\ last.ty = before.ty

(* C3: every Closed01 sample x satisfies 0.0 <= x <= 1.0; it is exactly    *)
(* 0.0 when the mantissa bits drawn are all zero and exactly 1.0 when      *)
(* they are all one.                                                       *)
C3_Closed01Endpoints ==
    last.dist = "Closed01" =>
        /\ Finite(last)
        /\ DyLe(DyZero, Val(last))
        /\ DyLe(Val(last), DyOne)
        /\ (IsZero(Mantissa(last)) => DyEq(Val(last), DyZero))
        /\ (MantissaAllOnes(last) => DyEq(Val(last), DyOne))

C3_Witness ==
    /\ last.dist = "Closed01"
    /\ MantissaAllOnes(last)
    /\ last.out = FOne(Fmt(last.ty))
    /\ before.dist = "Closed01"
    /\ IsZero(Mantissa(before))
    /\ before.ty = "f64"
    /\ last.ty = "f32"

(* C4: the Uniform sample equals exactly k * 2^-mantissa_bits, where k is  *)
(* the low mantissa_bits bits of the word drawn (23 for f32, 52 for f64);  *)
(* a source returning 0 gives 0.0, one returning 1 gives EPSILON, one      *)
(* returning all-ones gives 1.0 - EPSILON.                                 *)
C4_UniformExact ==
    last.dist = "Uniform" =>
        /\ Finite(last)
        /\ DyEq(Val(last), Dy(0, Mantissa(last), 0 - MantissaBits(last.ty)))
        /\ (last.raw = WordOfInt(0, last.ty) => DyEq(Val(last), DyZero))
        /\ (last.raw = WordOfInt(1, last.ty) => DyEq(Val(last), Epsilon(last.ty)))
        /\ (last.raw = Ones(Width(Fmt(last.ty))) =>
                DyEq(DyPlus(Val(last), Epsilon(last.ty)), DyOne))

C4_Witness ==
    /\ last.dist = "Uniform"
    /\ last.ty = "f32"
    /\ last.raw = Ones(32)
    /\ before.dist = "Uniform"
    /\ before.ty = "f64"
    /\ before.raw = WordOfInt(1, "f64")
    /\ DyEq(Val(before), Epsilon("f64"))

(* C5: the Open01 sample equals exactly the Uniform sample of the same     *)
(* word plus 0.5 * 2^-mantissa_bits: mantissa 0 gives EPSILON/2, mantissa  *)
(* all-ones gives 1.0 - EPSILON/2, mantissa 1 gives a value strictly       *)
(* between EPSILON and 2*EPSILON.                                          *)
C5_Open01Exact ==
    last.dist = "Open01" =>
        LET halfEps == Dy(0, <<1>>, 0 - (MantissaBits(last.ty) + 1))
        IN  /\ Finite(last)
            /\ DyEq(Val(last), DyPlus(UniformVal(last), halfEps))
            /\ DyEq(Val(last),
                    DyPlus(Dy(0, Mantissa(last), 0 - MantissaBits(last.ty)), halfEps))
            /\ (IsZero(Mantissa(last)) => DyEq(Val(last), halfEps))
            /\ (MantissaAllOnes(last) => DyEq(DyPlus(Val(last), halfEps), DyOne))
            /\ (NatEq(Mantissa(last), <<1>>) =>
                    /\ DyLt(Epsilon(last.ty), Val(last))
                    /\ DyLt(Val(last), DyScale(2, Epsilon(last.ty))))

C5_Witness ==
    /\ last.dist = "Open01"
    /\ NatEq(Mantissa(last), <<1>>)
    /\ DyEq(DyScale(2, Val(last)), DyScale(3, Epsilon(last.ty)))
    /\ before.dist = "Open01"
    /\ MantissaAllOnes(before)

(* C6: every sample operation calls the bit source exactly once, with the  *)
(* method of the sample's width: f32 samplers call next_u32 and not        *)
(* next_u64, f64 samplers next_u64 and not next_u32; after n operations    *)
(* the source has been advanced exactly n times.                           *)
C6_OneDrawPerSample ==
    /\ [](calls32 + calls64 = nsamples)
    /\ [][/\ nsamples' = nsamples + 1
          /\ IsSample(last')
          /\ (last'.ty = "f32" => calls32' = calls32 + 1 /\ calls64' = calls64)
          /\ (last'.ty = "f64" => calls64' = calls64 + 1 /\ calls32' = calls32)]_vars

C6_Witness ==
    /\ nsamples = 2
    /\ calls32 = 1
    /\ calls64 = 1
    /\ last.ty = "f64"
    /\ last.dist = "Closed01"
    /\ before.ty = "f32"
    /\ before.dist = "Open01"

(* C7: for each sampler at each precision, two words whose mantissa bits   *)
(* are ordered k1 <= k2 give samples ordered the same way.                 *)
C7_Monotone ==
    (/\ IsSample(before)
     /\ before.dist = last.dist
     /\ before.ty = last.ty
     /\ NatLe(Mantissa(before), Mantissa(last)))
    => DyLe(Val(before), Val(last))

C7_Witness ==
    /\ before.dist = "Closed01"
    /\ last.dist = "Closed01"
    /\ before.ty = last.ty
    /\ NatLt(Mantissa(before), Mantissa(last))
    /\ before.raw = RepWord(5, Width(Fmt(last.ty)))
    /\ DyLt(Val(before), Val(last))

(* C8: the intermediate pattern UPPER_MASK | (r & LOWER_MASK) has sign 0,  *)
(* the biased exponent of 1.0 (127 for f32, 1023 for f64) and the mantissa *)
(* bits of r; it lies in [0x3F800000, 0x3FFFFFFF], resp.                   *)
(* [0x3FF0000000000000, 0x3FFFFFFFFFFFFFFF], so it denotes a finite value  *)
(* in [1, 2); the two masks share no bit.                                  *)
C8_TmpInOneTwo ==
    IsSample(last) =>
        LET f  == Fmt(last.ty)
            lo == IF last.ty = "f32" THEN HexWord(<<3, 15, 8, 0, 0, 0, 0, 0>>, 32)
                  ELSE HexWord(<<3, 15, 15>> \o Zeros(13), 64)
            hi == IF last.ty = "f32" THEN HexWord(<<3, 15>> \o [i \in 1..6 |-> 15], 32)
                  ELSE HexWord(<<3>> \o [i \in 1..15 |-> 15], 64)
        IN  /\ Len(last.tmp) = Width(f)
            /\ SignBit(f, last.tmp) = 0
            /\ ExpField(f, last.tmp) = (IF last.ty = "f32" THEN 127 ELSE 1023)
            /\ NatEq(FracField(f, last.tmp), Mantissa(last))
            /\ FracField(f, last.tmp) = FracField(f, BitAnd(last.raw, LowerMask(last.ty)))
            /\ NatLe(lo, last.tmp)
            /\ NatLe(last.tmp, hi)
            /\ IsFinite(f, last.tmp)
            /\ DyLe(DyOne, DyOf(f, last.tmp))
            /\ DyLt(DyOf(f, last.tmp), DyScale(2, DyOne))
            /\ IsZero(BitAnd(UpperMask(last.ty), LowerMask(last.ty)))

C8_Witness ==
    /\ IsSample(last)
    /\ last.ty = "f64"
    /\ last.raw = Ones(64)
    /\ last.tmp = HexWord(<<3>> \o [i \in 1..15 |-> 15], 64)
    /\ before.ty = "f32"
    /\ before.raw = RepWord(12, 32)

(* C9: when the mantissa bits drawn are not all zero, the Closed01 sample  *)
(* is strictly greater than the Uniform sample of the same word and less   *)
(* than 1.01 times it; a source returning 1 gives a Closed01 sample        *)
(* strictly between EPSILON and 1.01 * EPSILON.                            *)
C9_Closed01NearUniform ==
    (last.dist = "Closed01" /\ ~IsZero(Mantissa(last))) =>
        /\ Finite(last)
        /\ DyLt(UniformVal(last), Val(last))
        /\ DyLt(DyScale(100, Val(last)), DyScale(101, UniformVal(last)))
        /\ (last.raw = WordOfInt(1, last.ty) =>
                /\ DyLt(Epsilon(last.ty), Val(last))
                /\ DyLt(DyScale(100, Val(last)), DyScale(101, Epsilon(last.ty))))

C9_Witness ==
    /\ last.dist = "Closed01"
    /\ last.raw = WordOfInt(1, last.ty)
    /\ DyLt(Epsilon(last.ty), Val(last))
    /\ before.dist = "Closed01"
    /\ before.raw = WordOfInt(1, before.ty)
    /\ last.ty # before.ty

====
